---- MODULE Spec2Model ----
(***************************************************************************)
(* Personal expense tracker (src/expense_tracker.py).                      *)
(*                                                                         *)
(* Texts (str) are sequences of atoms: every blank, digit and punctuation  *)
(* mark is an atom of its own, a word of letters is one atom; so strip(),  *)
(* strptime(), strftime(), float() and the ".2f" format are computed and   *)
(* not assumed.  Amounts (float) are integers counting thousandths; the    *)
(* sample amounts are multiples of 0.125, for which binary floating-point  *)
(* addition is exact and ".2f" rounds half to even.  The csv module is     *)
(* taken to quote and unquote cells faithfully: a file is the sequence of  *)
(* its rows, a row the sequence of its cells.                              *)
(***************************************************************************)
EXTENDS Integers, Sequences, FiniteSets, TLC

VARIABLES file, startFile, pc, ledger, added, budgets, lastOp, failed, screen, report

vars == <<file, startFile, pc, ledger, added, budgets, lastOp, failed, screen, report>>

(***************************************************************************)
(* Bounds of the model.                                                    *)
(***************************************************************************)
MaxRows == 2
MaxAdds == 2

(***************************************************************************)
(* Text helpers: str.strip(), digits.                                      *)
(***************************************************************************)
Digits == {"0", "1", "2", "3", "4", "5", "6", "7", "8", "9"}

DigitVal(c) ==
    CASE c = "0" -> 0 [] c = "1" -> 1 [] c = "2" -> 2 [] c = "3" -> 3 [] c = "4" -> 4
      [] c = "5" -> 5 [] c = "6" -> 6 [] c = "7" -> 7 [] c = "8" -> 8 [] OTHER -> 9

DigitChar(n) ==
    CASE n = 0 -> "0" [] n = 1 -> "1" [] n = 2 -> "2" [] n = 3 -> "3" [] n = 4 -> "4"
      [] n = 5 -> "5" [] n = 6 -> "6" [] n = 7 -> "7" [] n = 8 -> "8" [] OTHER -> "9"

AllDigits(s) == \A i \in 1..Len(s) : s[i] \in Digits

RECURSIVE DigitsToNat(_)
DigitsToNat(s) ==
    IF s = <<>> THEN 0
    ELSE 10 * DigitsToNat(SubSeq(s, 1, Len(s) - 1)) + DigitVal(s[Len(s)])

RECURSIVE NatToDigits(_)
NatToDigits(n) ==
    IF n < 10 THEN <<DigitChar(n)>>
    ELSE NatToDigits(n \div 10) \o <<DigitChar(n % 10)>>

RECURSIVE ZeroPad(_, _)
ZeroPad(s, width) == IF Len(s) >= width THEN s ELSE ZeroPad(<<"0">> \o s, width)

RECURSIVE LStrip(_)
LStrip(s) == IF s # <<>> /\ s[1] = " " THEN LStrip(Tail(s)) ELSE s

RECURSIVE RStrip(_)
RStrip(s) ==
    IF s # <<>> /\ s[Len(s)] = " " THEN RStrip(SubSeq(s, 1, Len(s) - 1)) ELSE s

Strip(s) == RStrip(LStrip(s))

(***************************************************************************)
(* Dates.  NoDate stands for None (year 0 is below datetime.MINYEAR).      *)
(***************************************************************************)
NoDate == [y |-> 0, m |-> 0, d |-> 0]

IsLeap(y) == (y % 4 = 0 /\ y % 100 # 0) \/ y % 400 = 0

DaysIn(y, m) ==
    IF m = 2 THEN (IF IsLeap(y) THEN 29 ELSE 28)
    ELSE IF m \in {4, 6, 9, 11} THEN 30 ELSE 31

\* %m of strptime: 1[0-2] | 0[1-9] | [1-9]
MonthField(s) ==
    /\ Len(s) \in {1, 2}
    /\ AllDigits(s)
    /\ DigitsToNat(s) \in 1..12

\* %d of strptime: 3[01] | [12]\d | 0[1-9] | [1-9] | " "[1-9]
DayField(s) ==
    \/ Len(s) \in {1, 2} /\ AllDigits(s) /\ DigitsToNat(s) \in 1..31
    \/ Len(s) = 2 /\ s[1] = " " /\ s[2] \in Digits \ {"0"}

DayValue(s) == IF s[1] = " " THEN DigitVal(s[2]) ELSE DigitsToNat(s)

\* %Y of strptime: exactly four digits
YearField(s) == Len(s) = 4 /\ AllDigits(s)

\* the position of the "-" that ends the month field of Y-M-D, 0 when none
MonthEnd(s) ==
    IF Len(s) >= 7 /\ s[7] = "-" THEN 7
    ELSE IF Len(s) >= 8 /\ s[8] = "-" THEN 8 ELSE 0

parse_date(s) ==
    LET dash  == MonthEnd(s)
        year  == SubSeq(s, 1, 4)
        month == SubSeq(s, 6, dash - 1)
        day   == SubSeq(s, dash + 1, Len(s))
    IN  IF /\ Len(s) >= 8
           /\ YearField(year)
           /\ s[5] = "-"
           /\ dash # 0
           /\ MonthField(month)
           /\ DayField(day)
        THEN LET y == DigitsToNat(year)
                 m == DigitsToNat(month)
                 d == DayValue(day)
             IN  IF y >= 1 /\ d <= DaysIn(y, m) THEN [y |-> y, m |-> m, d |-> d]
                 ELSE NoDate
        ELSE NoDate

parse_month(s) ==
    IF /\ Len(s) >= 6
       /\ YearField(SubSeq(s, 1, 4))
       /\ s[5] = "-"
       /\ MonthField(SubSeq(s, 6, Len(s)))
       /\ DigitsToNat(SubSeq(s, 1, 4)) >= 1
    THEN [y |-> DigitsToNat(SubSeq(s, 1, 4)), m |-> DigitsToNat(SubSeq(s, 6, Len(s))), d |-> 1]
    ELSE NoDate

\* strftime("%Y-%m") (years from 1000 on, which print as four digits)
StrftimeYM(dt) == ZeroPad(NatToDigits(dt.y), 4) \o <<"-">> \o ZeroPad(NatToDigits(dt.m), 2)

\* date.isoformat()
IsoFormat(dt) == StrftimeYM(dt) \o <<"-">> \o ZeroPad(NatToDigits(dt.d), 2)

(***************************************************************************)
(* Amounts: float() and the ".2f" format, in thousandths.                  *)
(***************************************************************************)
NotANumber == [ok |-> FALSE, val |-> 0]

DotAt(s) == IF \E i \in 1..Len(s) : s[i] = "." THEN CHOOSE i \in 1..Len(s) : s[i] = "." ELSE 0

\* the value of an unsigned decimal numeral with at most three fraction digits
Unsigned(s) ==
    LET dot  == DotAt(s)
        ip   == IF dot = 0 THEN s ELSE SubSeq(s, 1, dot - 1)
        fp   == IF dot = 0 THEN <<>> ELSE SubSeq(s, dot + 1, Len(s))
        fp3  == fp \o SubSeq(<<"0", "0", "0">>, 1, 3 - Len(fp))
    IN  IF /\ AllDigits(ip) /\ AllDigits(fp)
           /\ Len(ip) + Len(fp) >= 1
           /\ Len(fp) <= 3
        THEN [ok |-> TRUE, val |-> 1000 * DigitsToNat(ip) + DigitsToNat(fp3)]
        ELSE NotANumber

\* float(text): surrounding blanks and one sign are accepted.  Exponents, digit
\* separators, inf and nan are outside the modelled grammar (no sample uses them).
ParseFloat(s) ==
    LET t == Strip(s)
    IN  IF t = <<>> THEN NotANumber
        ELSE IF t[1] = "-"
             THEN LET u == Unsigned(Tail(t)) IN [ok |-> u.ok, val |-> 0 - u.val]
        ELSE IF t[1] = "+" THEN Unsigned(Tail(t))
        ELSE Unsigned(t)

\* hundredths nearest to a magnitude in thousandths, ties to even
RoundHundredths(mag) ==
    LET h == mag \div 10
        r == mag % 10
    IN  IF r > 5 \/ (r = 5 /\ h % 2 = 1) THEN h + 1 ELSE h

\* a ".2f" that rounds every tie away from zero
Format2HalfUp(a) ==
    LET mag == IF a < 0 THEN 0 - a ELSE a
        h   == (mag + 5) \div 10
    IN  (IF a < 0 THEN <<"-">> ELSE <<>>)
          \o NatToDigits(h \div 100) \o <<".">> \o ZeroPad(NatToDigits(h % 100), 2)

\* f"{a:.2f}"
Format2(a) ==
    LET mag == IF a < 0 THEN 0 - a ELSE a
        h   == RoundHundredths(mag)
    IN  (IF a < 0 THEN <<"-">> ELSE <<>>)
          \o NatToDigits(h \div 100) \o <<".">> \o ZeroPad(NatToDigits(h % 100), 2)

(***************************************************************************)
(* Sample texts.                                                           *)
(***************************************************************************)
DateKey == <<"date">>
CategoryKey == <<"category">>
AmountKey == <<"amount">>
DescriptionKey == <<"description">>

Food == <<"Food">>
Lunch == <<"Lunch">>
Aug01 == <<"2", "0", "2", "5", "-", "0", "8", "-", "0", "1">>
Sep01 == <<"2", "0", "2", "5", "-", "0", "9", "-", "0", "1">>
Aug1Padded == <<" ", "2", "0", "2", "5", "-", "8", "-", "1", " ">>
Aug15Short == <<"2", "0", "2", "5", "-", "8", "-", "1", "5">>
Slashed == <<"0", "8", "/", "0", "1", "/", "2", "0", "2", "5">>
Blank == <<" ">>
Abc == <<"abc">>
Eighth == <<"0", ".", "1", "2", "5">>
TwelveHalf == <<"1", "2", ".", "5">>
MinusFive == <<"-", "5">>
Ten == <<"1", "0">>
MonthAugShort == <<"2", "0", "2", "5", "-", "8">>
MonthSlashed == <<"2", "0", "2", "5", "/", "0", "8">>

\* datetime.today() of the session
Today == [y |-> 2025, m |-> 8, d |-> 10]

(***************************************************************************)
(* The stored file: csv rows.  NoneCell stands for None (DictReader's      *)
(* restval for a row shorter than the header).                             *)
(***************************************************************************)
NoneCell == <<"None">>

HeaderRow == <<DateKey, CategoryKey, AmountKey, DescriptionKey>>

NoFile == [exists |-> FALSE, rows |-> <<>>]

\* rows a stored file may hold: well-formed with a sub-cent amount; blank-padded,
\* month and day of one digit, negative amount; no category; non-numeric amount
SampleRows ==
    { <<Sep01, Food, Eighth, Lunch>>,
      <<Aug1Padded, <<" ">> \o Food \o <<" ">>, MinusFive, <<" ">> \o Lunch>>,
      <<Aug01, <<>>, Ten, Lunch>>,
      <<Aug01, Food, Abc, Lunch>> }

RECURSIVE RowSeqs(_)
RowSeqs(n) ==
    IF n = 0 THEN {<<>>}
    ELSE RowSeqs(n - 1) \cup {Append(s, r) : s \in {t \in RowSeqs(n - 1) : Len(t) = n - 1}, r \in SampleRows}

\* further stored files: an empty line between two rows; a row that ends after
\* its second cell; a date in another format with no amount
SampleFiles ==
    { <<HeaderRow, <<Sep01, Food, Eighth, Lunch>>, <<>>, <<Aug01, Food, TwelveHalf, Lunch>>>>,
      <<HeaderRow, <<Sep01, Food, Eighth, Lunch>>, <<Aug01, Food>>>>,
      <<HeaderRow, <<Sep01, Food, Eighth, Lunch>>, <<Slashed, Food, <<>>, Lunch>>,
        <<Aug01, Food, TwelveHalf, Lunch>>>> }

\* the files a session may find at startup: none, an empty one, or the header
\* row followed by stored rows
StartFiles ==
    {NoFile, [exists |-> TRUE, rows |-> <<>>]}
      \cup {[exists |-> TRUE, rows |-> <<HeaderRow>> \o s] : s \in RowSeqs(MaxRows)}
      \cup {[exists |-> TRUE, rows |-> rows] : rows \in SampleFiles}

\* csv.DictReader: the last column of that name; None past the row's end
FieldIndex(header, key) ==
    IF \E i \in 1..Len(header) : header[i] = key
    THEN CHOOSE i \in 1..Len(header) :
            header[i] = key /\ \A j \in (i + 1)..Len(header) : header[j] # key
    ELSE 0

RowGet(header, row, key, default) ==
    LET i == FieldIndex(header, key)
    IN  IF i = 0 THEN default ELSE IF i <= Len(row) THEN row[i] ELSE NoneCell

\* float(row.get("amount", "0") or 0)
RowAmount(header, row) ==
    LET v == RowGet(header, row, AmountKey, <<"0">>)
    IN  IF v = NoneCell \/ v = <<>> THEN [ok |-> TRUE, val |-> 0] ELSE ParseFloat(v)

\* the row raises inside the loop: None.strip() or float() of a non-number
RowRaises(header, row) ==
    \/ RowGet(header, row, DateKey, <<>>) = NoneCell
    \/ RowGet(header, row, CategoryKey, <<>>) = NoneCell
    \/ ~RowAmount(header, row).ok
    \/ RowGet(header, row, DescriptionKey, <<>>) = NoneCell

RowEntry(header, row) ==
    [date        |-> Strip(RowGet(header, row, DateKey, <<>>)),
     category    |-> Strip(RowGet(header, row, CategoryKey, <<>>)),
     amount      |-> RowAmount(header, row).val,
     description |-> Strip(RowGet(header, row, DescriptionKey, <<>>))]

\* an except clause that discards what was read
OnLoadErrorEmpty(acc) == [entries |-> <<>>, failed |-> TRUE]

\* what the except clause leaves in `expenses` when a row raises
OnLoadError(acc) == [entries |-> acc, failed |-> TRUE]

\* a reader that takes an empty line for the end of the file
RECURSIVE LoadRowsToEmptyLine(_, _, _)
LoadRowsToEmptyLine(header, rows, acc) ==
    IF rows = <<>> \/ Head(rows) = <<>> THEN [entries |-> acc, failed |-> FALSE]
    ELSE IF RowRaises(header, Head(rows)) THEN [entries |-> acc, failed |-> TRUE]
    ELSE LoadRowsToEmptyLine(header, Tail(rows), Append(acc, RowEntry(header, Head(rows))))

RECURSIVE LoadRows(_, _, _)
LoadRows(header, rows, acc) ==
    IF rows = <<>> THEN [entries |-> acc, failed |-> FALSE]
    ELSE IF Head(rows) = <<>> THEN LoadRows(header, Tail(rows), acc)
    ELSE IF RowRaises(header, Head(rows)) THEN OnLoadError(acc)
    ELSE LoadRows(header, Tail(rows), Append(acc, RowEntry(header, Head(rows))))

load_expenses(f) ==
    IF ~f.exists \/ f.rows = <<>> THEN [entries |-> <<>>, failed |-> FALSE]
    ELSE LoadRows(f.rows[1], Tail(f.rows), <<>>)

(***************************************************************************)
(* Entries in memory: date, category, description are texts, amount a      *)
(* float (load_expenses and add_expense both store a float).               *)
(***************************************************************************)
\* (the amount of a ledger entry is a float: it is never None or "", and
\* float() of it never raises)
is_valid_entry(e) ==
    /\ e.date # <<>>
    /\ e.category # <<>>
    /\ e.description # <<>>
    /\ parse_date(e.date) # NoDate

EntryRow(e) == <<e.date, e.category, Format2(e.amount), e.description>>

RECURSIVE DataRows(_)
DataRows(l) ==
    IF l = <<>> THEN <<>>
    ELSE IF ~is_valid_entry(Head(l)) THEN DataRows(Tail(l))
    ELSE <<EntryRow(Head(l))>> \o DataRows(Tail(l))

\* the rows save_expenses writes
SaveRows(l) == <<HeaderRow>> \o DataRows(l)

\* a file opened with "a": the rows are added after the old ones
WrittenFileAppended(old, l) == [exists |-> TRUE, rows |-> old.rows \o SaveRows(l)]

\* open(..., "w") truncates and rewrites
WrittenFile(old, l) == [exists |-> TRUE, rows |-> SaveRows(l)]

\* what an I/O error may leave: the old file (open failed) or a prefix of the rows
FailedWrites(old, l) ==
    LET rows == SaveRows(l)
    IN  {old} \cup {[exists |-> TRUE, rows |-> SubSeq(rows, 1, k)] : k \in 0..Len(rows)}

\* a total that never looks at the month
RECURSIVE calc_total_any_month(_, _)
calc_total_any_month(l, year_month) ==
    IF l = <<>> THEN 0
    ELSE (IF is_valid_entry(Head(l)) THEN Head(l).amount ELSE 0)
           + calc_total_any_month(Tail(l), year_month)

RECURSIVE calc_total_for_month(_, _)
calc_total_for_month(l, year_month) ==
    IF l = <<>> THEN 0
    ELSE LET e == Head(l)
         IN  (IF is_valid_entry(e) /\ StrftimeYM(parse_date(e.date)) = year_month
              THEN e.amount ELSE 0)
               + calc_total_for_month(Tail(l), year_month)

\* a line printed without asking is_valid_entry
ViewLineUnchecked(idx, e) ==
    [kind |-> "entry", idx |-> idx, date |-> e.date, category |-> e.category,
     amount |-> Format2(e.amount), description |-> e.description]

\* one printed line of view_expenses
ViewLine(idx, e) ==
    IF ~is_valid_entry(e)
    THEN [kind |-> "skipped", idx |-> idx, date |-> <<>>, category |-> <<>>,
          amount |-> <<>>, description |-> <<>>]
    ELSE [kind |-> "entry", idx |-> idx, date |-> e.date, category |-> e.category,
          amount |-> Format2(e.amount), description |-> e.description]

Notice(kind) ==
    [kind |-> kind, idx |-> 0, date |-> <<>>, category |-> <<>>,
     amount |-> <<>>, description |-> <<>>]

view_expenses(l) ==
    IF l = <<>> THEN <<Notice("none recorded")>>
    ELSE LET lines == [i \in 1..Len(l) |-> ViewLine(i, l[i])]
         IN  IF \E i \in 1..Len(l) : lines[i].kind = "entry" THEN lines
             ELSE Append(lines, Notice("none valid"))

(***************************************************************************)
(* Interactive input.                                                      *)
(***************************************************************************)
RawDates == {Aug15Short, Slashed}
RawCategories == {Food \o <<" ">>, Blank}
RawAmounts == {Eighth, TwelveHalf, MinusFive, Abc}
RawDescriptions == {<<" ">> \o Lunch}
RawMonths == {<<>>, MonthAugShort, MonthSlashed}
RawBudgets == {Ten, MinusFive}
RawChoices == {"y", "n"}

\* input_non_empty returns the stripped text once it is not empty
InputNonEmptyAccepts(raw) == Strip(raw) # <<>>

\* input_float returns float(raw.strip()) once it parses and is not negative
InputFloatAccepts(raw) == ParseFloat(Strip(raw)).ok /\ ParseFloat(Strip(raw)).val >= 0

InputFloat(raw) == ParseFloat(Strip(raw)).val

NewEntry(rawDate, rawCategory, rawAmount, rawDescription) ==
    [date        |-> IsoFormat(parse_date(Strip(rawDate))),
     category    |-> Strip(rawCategory),
     amount      |-> InputFloat(rawAmount),
     description |-> Strip(rawDescription)]

\* expenses.insert(0, entry)
InsertEntryFirst(l, e) == <<e>> \o l

\* expenses.append(entry)
AppendEntry(l, e) == Append(l, e)

NoReport == [kind |-> "none", month |-> <<>>, budget |-> 0, spent |-> 0,
             remaining |-> 0, over |-> FALSE, figure |-> <<>>]

\* the month text track_budget works with
MonthStr(rawMonth) == IF Strip(rawMonth) = <<>> THEN StrftimeYM(Today) ELSE Strip(rawMonth)

\* the status lines of track_budget
BudgetReport(l, month_str, budget) ==
    LET total     == calc_total_for_month(l, month_str)
        remaining == budget - total
    IN  [kind |-> "status", month |-> month_str, budget |-> budget, spent |-> total,
         remaining |-> remaining, over |-> remaining < 0,
         figure |-> IF remaining < 0 THEN Format2(0 - remaining) ELSE Format2(remaining)]

NoBudgets == [k \in {} |-> 0]

(***************************************************************************)
(* The session: main() and the handler of KeyboardInterrupt.               *)
(***************************************************************************)
Init ==
    /\ startFile \in StartFiles
    /\ file = startFile
    /\ pc = "start"
    /\ ledger = <<>>
    /\ added = <<>>
    /\ budgets = NoBudgets
    /\ lastOp = "none"
    /\ failed = FALSE
    /\ screen = <<>>
    /\ report = NoReport

\* expenses = load_expenses(); budgets = {}; print("Loaded", ...)
Startup ==
    /\ pc = "start"
    /\ LET loaded == load_expenses(file)
       IN  /\ ledger' = loaded.entries
           /\ failed' = loaded.failed
    /\ budgets' = NoBudgets
    /\ pc' = "handled"
    /\ lastOp' = "load"
    /\ screen' = <<>>
    /\ report' = NoReport
    /\ UNCHANGED <<file, startFile, added>>

\* while True: menu(); choice = input(...)
Menu ==
    /\ pc = "handled"
    /\ pc' = "menu"
    /\ lastOp' = "none"
    /\ failed' = FALSE
    /\ screen' = <<>>
    /\ report' = NoReport
    /\ UNCHANGED <<file, startFile, ledger, added, budgets>>

\* choice "1": the prompts loop until each input is accepted
AddExpense(rawDate, rawCategory, rawAmount, rawDescription) ==
    /\ pc = "menu"
    /\ Len(added) < MaxAdds
    /\ InputNonEmptyAccepts(rawDate)
    /\ parse_date(Strip(rawDate)) # NoDate
    /\ InputNonEmptyAccepts(rawCategory)
    /\ InputFloatAccepts(rawAmount)
    /\ InputNonEmptyAccepts(rawDescription)
    /\ LET entry == NewEntry(rawDate, rawCategory, rawAmount, rawDescription)
       IN  /\ ledger' = AppendEntry(ledger, entry)
           /\ added' = Append(added, entry)
    /\ pc' = "handled"
    /\ lastOp' = "add"
    /\ failed' = FALSE
    /\ screen' = <<>>
    /\ report' = NoReport
    /\ UNCHANGED <<file, startFile, budgets>>

\* choice "2"
ViewExpenses ==
    /\ pc = "menu"
    /\ screen' = view_expenses(ledger)
    /\ pc' = "handled"
    /\ lastOp' = "view"
    /\ failed' = FALSE
    /\ report' = NoReport
    /\ UNCHANGED <<file, startFile, ledger, added, budgets>>

\* choice "3": the y/n and budget prompts come only for a month without a budget
TrackBudget(rawMonth) ==
    /\ pc = "menu"
    /\ LET month_str == MonthStr(rawMonth)
       IN  IF parse_month(month_str) = NoDate
           THEN /\ report' = [NoReport EXCEPT !.kind = "invalid month"]
                /\ budgets' = budgets
           ELSE IF month_str \in DOMAIN budgets
           THEN /\ report' = BudgetReport(ledger, month_str, budgets[month_str])
                /\ budgets' = budgets
           ELSE \E choice \in RawChoices :
                   IF choice # "y"
                   THEN /\ report' = [NoReport EXCEPT !.kind = "no budget", !.month = month_str]
                        /\ budgets' = budgets
                   ELSE \E rawBudget \in RawBudgets :
                           /\ InputFloatAccepts(rawBudget)
                           /\ budgets' = (month_str :> InputFloat(rawBudget)) @@ budgets
                           /\ report' = BudgetReport(ledger, month_str, InputFloat(rawBudget))
    /\ pc' = "handled"
    /\ lastOp' = "track"
    /\ failed' = FALSE
    /\ screen' = <<>>
    /\ UNCHANGED <<file, startFile, ledger, added>>

\* save_expenses(expenses): the write succeeds, or an I/O error is caught and reported
SaveOutcome(ok) ==
    /\ \/ ok /\ file' = WrittenFile(file, ledger)
       \/ ~ok /\ file' \in FailedWrites(file, ledger)
    /\ failed' = ~ok
    /\ screen' = <<>>
    /\ report' = NoReport
    /\ UNCHANGED <<startFile, ledger, added, budgets>>

\* choice "4"
SaveExpenses(ok) ==
    /\ pc = "menu"
    /\ SaveOutcome(ok)
    /\ lastOp' = "save"
    /\ pc' = "handled"

\* choice "5": save, print "Goodbye!", break
SaveAndExit(ok) ==
    /\ pc = "menu"
    /\ SaveOutcome(ok)
    /\ lastOp' = "save_exit"
    /\ pc' = "done"

\* any other choice
InvalidChoice ==
    /\ pc = "menu"
    /\ pc' = "handled"
    /\ lastOp' = "invalid"
    /\ failed' = FALSE
    /\ screen' = <<>>
    /\ report' = NoReport
    /\ UNCHANGED <<file, startFile, ledger, added, budgets>>

\* Ctrl+C at a prompt: the handler prints and calls sys.exit(0)
Interrupt ==
    /\ pc = "menu"
    /\ pc' = "interrupted"
    /\ lastOp' = "interrupt"
    /\ failed' = FALSE
    /\ screen' = <<>>
    /\ report' = NoReport
    /\ UNCHANGED <<file, startFile, ledger, added, budgets>>

Next ==
    \/ Startup
    \/ Menu
    \/ \E rd \in RawDates, rc \in RawCategories, ra \in RawAmounts, rs \in RawDescriptions :
          AddExpense(rd, rc, ra, rs)
    \/ ViewExpenses
    \/ \E rm \in RawMonths : TrackBudget(rm)
    \/ \E ok \in BOOLEAN : SaveExpenses(ok)
    \/ \E ok \in BOOLEAN : SaveAndExit(ok)
    \/ InvalidChoice
    \/ Interrupt

Spec == Init /\ [][Next]_vars

\* The ledger store alone: track_budget writes only budgets and its report, which
\* no statement about the ledger and the file reads.
NextStore ==
    \/ Startup
    \/ Menu
    \/ \E rd \in RawDates, rc \in RawCategories, ra \in RawAmounts, rs \in RawDescriptions :
          AddExpense(rd, rc, ra, rs)
    \/ ViewExpenses
    \/ \E ok \in BOOLEAN : SaveExpenses(ok)
    \/ \E ok \in BOOLEAN : SaveAndExit(ok)

SpecStore == Init /\ [][NextStore]_vars

\* The budget report alone: save_expenses writes only the file, which no statement
\* about totals and budgets reads.
NextBudget ==
    \/ Startup
    \/ Menu
    \/ \E rd \in RawDates, rc \in RawCategories, ra \in RawAmounts, rs \in RawDescriptions :
          AddExpense(rd, rc, ra, rs)
    \/ \E rm \in RawMonths : TrackBudget(rm)

SpecBudget == Init /\ [][NextBudget]_vars

(***************************************************************************)
(* Properties.                                                             *)
(***************************************************************************)
\* the last step was save_expenses and it reported no failure
SavedOk == lastOp \in {"save", "save_exit"} /\ ~failed

ValidEntries(l) == SelectSeq(l, is_valid_entry)

\* the multiple of 0.01 nearest to an amount, a tie going to the even hundredth
NearestCent(a) ==
    LET lo == 10 * (a \div 10)
        hi == lo + 10
    IN  IF a - lo < hi - a THEN lo
        ELSE IF a - lo > hi - a THEN hi
        ELSE IF (lo \div 10) % 2 = 0 THEN lo ELSE hi

InCents(l) == [i \in 1..Len(l) |-> [l[i] EXCEPT !.amount = NearestCent(l[i].amount)]]

\* C1 as stated: loading the file a save wrote returns exactly the valid entries
\* of the ledger, amounts included.
C1_RoundTripExact ==
    SavedOk => load_expenses(file) = [entries |-> ValidEntries(ledger), failed |-> FALSE]

\* C1 amended: loading the file a save wrote returns the valid entries of the
\* ledger in order, with the same date, category and description and with the
\* amount rounded to two decimals.
C1_RoundTripToCents ==
    SavedOk => load_expenses(file) = [entries |-> InCents(ValidEntries(ledger)), failed |-> FALSE]

C1_Witness ==
    /\ SavedOk
    /\ \E i \in 1..Len(ledger) : is_valid_entry(ledger[i]) /\ ledger[i].amount % 10 # 0
    /\ \E i \in 1..Len(ledger) : ~is_valid_entry(ledger[i])
    /\ Len(added) >= 1

\* the stored rows of the startup file, header and empty lines apart
StoredHeader == IF startFile.rows = <<>> THEN <<>> ELSE startFile.rows[1]

NonEmptyRow(r) == r # <<>>

StoredRows == IF startFile.rows = <<>> THEN <<>> ELSE SelectSeq(Tail(startFile.rows), NonEmptyRow)

FirstRaising ==
    IF \E k \in 1..Len(StoredRows) : RowRaises(StoredHeader, StoredRows[k])
    THEN CHOOSE k \in 1..Len(StoredRows) :
            /\ RowRaises(StoredHeader, StoredRows[k])
            /\ \A j \in 1..(k - 1) : ~RowRaises(StoredHeader, StoredRows[j])
    ELSE 0

EntriesOfRows(rows) == [i \in 1..Len(rows) |-> RowEntry(StoredHeader, rows[i])]

\* C2 as stated: a load that hits a malformed row leaves the ledger empty.
C2_FailedLoadIsEmpty == (lastOp = "load" /\ failed) => ledger = <<>>

\* C2 amended: a load that hits a malformed row stops there; the ledger holds
\* the entries of the rows before it, in order, and none of the rows after it.
C2_FailedLoadKeepsPrefix ==
    lastOp = "load" =>
        /\ failed <=> FirstRaising # 0
        /\ failed => ledger = EntriesOfRows(SubSeq(StoredRows, 1, FirstRaising - 1))

C2_Witness == lastOp = "load" /\ failed /\ Len(ledger) >= 1 /\ Len(StoredRows) > Len(ledger)

\* C3: when the session ends by an interrupt, the step that ended it called
\* save_expenses.
C3_InterruptSaves == pc = "interrupted" => lastOp \in {"save", "save_exit"}

ValidRows(l) == [i \in 1..Len(ValidEntries(l)) |-> EntryRow(ValidEntries(l)[i])]

\* C4: a save, failed or not, leaves the ledger as it was and ends as the menu
\* choice says (back to the menu after 4, a normal exit after 5); a save that
\* succeeds, also after failed ones, leaves the header and one row per valid entry.
C4_SaveFailureIsHarmless ==
    [][(pc = "menu" /\ lastOp' \in {"save", "save_exit"}) =>
          /\ ledger' = ledger
          /\ pc' = IF lastOp' = "save" THEN "handled" ELSE "done"
          /\ ~failed' => file' = [exists |-> TRUE, rows |-> <<HeaderRow>> \o ValidRows(ledger)]]_vars

C4_Witness ==
    /\ lastOp = "save" /\ failed /\ pc = "handled"
    /\ ValidEntries(ledger) # <<>>
    /\ file # startFile
    /\ file.rows # <<HeaderRow>> \o ValidRows(ledger)

\* the year-months the sample dates fall in, and two they do not
YearMonths ==
    { [key |-> <<"2", "0", "2", "5", "-", "0", "8">>, y |-> 2025, m |-> 8],
      [key |-> <<"2", "0", "2", "5", "-", "0", "9">>, y |-> 2025, m |-> 9],
      [key |-> <<"2", "0", "2", "4", "-", "0", "8">>, y |-> 2024, m |-> 8],
      [key |-> <<"2", "0", "2", "5", "-", "1", "0">>, y |-> 2025, m |-> 10] }

\* the entry is valid and dated in year y, month m
CountsFor(e, y, m) == is_valid_entry(e) /\ parse_date(e.date).y = y /\ parse_date(e.date).m = m

RECURSIVE SumAmounts(_, _)
SumAmounts(l, idx) ==
    IF idx = {} THEN 0
    ELSE LET i == CHOOSE i \in idx : TRUE
         IN  l[i].amount + SumAmounts(l, idx \ {i})

MonthTotal(l, y, m) == SumAmounts(l, {i \in 1..Len(l) : CountsFor(l[i], y, m)})

\* C5: for every year-month, calc_total_for_month is the sum of the amounts of
\* the valid entries dated in it (0 when there are none), and so is the amount
\* track_budget reports as spent for that month.
C5_TotalIsSumOfMonth ==
    /\ \A ym \in YearMonths : calc_total_for_month(ledger, ym.key) = MonthTotal(ledger, ym.y, ym.m)
    /\ \A ym \in YearMonths :
          (report.kind = "status" /\ report.month = ym.key) =>
              report.spent = MonthTotal(ledger, ym.y, ym.m)

C5_Witness ==
    /\ report.kind = "status" /\ report.spent # 0
    /\ \E i \in 1..Len(ledger) : ~is_valid_entry(ledger[i])
    /\ \E i \in 1..Len(ledger) : CountsFor(ledger[i], 2025, 9)
    /\ \E i, j \in 1..Len(ledger) : i # j /\ CountsFor(ledger[i], 2025, 8) /\ CountsFor(ledger[j], 2025, 8)

\* C6: the status track_budget prints for a month with a budget gives as spent
\* the total of the valid entries dated in that month, as remaining the budget
\* less spent, and is over budget exactly when remaining is negative, then
\* printing the deficit spent - budget.
C6_ReportMatchesMonth ==
    report.kind = "status" =>
        LET month == parse_month(report.month)
            spent == MonthTotal(ledger, month.y, month.m)
        IN  /\ report.budget = budgets[report.month]
            /\ report.spent = spent
            /\ report.remaining = report.budget - spent
            /\ report.over <=> report.budget - spent < 0
            /\ report.over => report.figure = Format2(spent - report.budget)

Without(l, i) == SubSeq(l, 1, i - 1) \o SubSeq(l, i + 1, Len(l))

ShownIndexes == {screen[k].idx : k \in {n \in 1..Len(screen) : screen[n].kind = "entry"}}

\* C7: view_expenses shows exactly the valid entries, each with its own date,
\* category and description; in every ledger (asked each time the ledger has
\* changed) an entry adds its amount to the total of its month when it is valid
\* and nothing to any total when it is not; a save writes one row per valid
\* entry and none for the others.
C7_OnlyValidEntriesTakePart ==
    /\ lastOp = "view" =>
          /\ ShownIndexes = {i \in 1..Len(ledger) : is_valid_entry(ledger[i])}
          /\ \A k \in 1..Len(screen) :
                screen[k].kind = "entry" =>
                    /\ screen[k].date = ledger[screen[k].idx].date
                    /\ screen[k].category = ledger[screen[k].idx].category
                    /\ screen[k].description = ledger[screen[k].idx].description
    /\ lastOp \in {"load", "add"} =>
          \A i \in 1..Len(ledger), ym \in YearMonths :
             calc_total_for_month(ledger, ym.key) - calc_total_for_month(Without(ledger, i), ym.key)
               = IF CountsFor(ledger[i], ym.y, ym.m) THEN ledger[i].amount ELSE 0
    /\ SavedOk => Tail(file.rows) = ValidRows(ledger)

C7_Witness ==
    /\ lastOp = "view"
    /\ \E k \in 1..Len(screen) : screen[k].kind = "entry"
    /\ \E i \in 1..Len(ledger) : ~is_valid_entry(ledger[i]) /\ ledger[i].amount # 0

\* an unsigned numeral with exactly two digits after the point
TwoDecimalsUnsigned(t) ==
    /\ Len(t) >= 4
    /\ t[Len(t) - 2] = "."
    /\ \A i \in 1..Len(t) : i # Len(t) - 2 => t[i] \in Digits

\* C8: after a successful save every data row of the file holds a non-negative
\* amount written with exactly two decimals.
C8_SavedAmountsNonNegative ==
    SavedOk => \A k \in 2..Len(file.rows) : TwoDecimalsUnsigned(file.rows[k][3])

IsPrefix(a, b) == Len(a) <= Len(b) /\ SubSeq(b, 1, Len(a)) = a

\* C9: once loaded, the ledger only grows at its end: a step of add_expense
\* appends exactly one entry, every other step leaves the ledger as it is.
C9_LedgerAppendOnly ==
    [][pc # "start" =>
          /\ IsPrefix(ledger, ledger')
          /\ Len(ledger') = IF pc = "menu" /\ lastOp' = "add" THEN Len(ledger) + 1 ELSE Len(ledger)]_vars

C9_Witness ==
    /\ lastOp = "add" /\ Len(added) >= 2
    /\ Len(ledger) > Len(added)
    /\ added[1] # added[2]

\* C10: when no stored row raised at startup, a successful save leaves the
\* header, then one row per valid entry of the stored rows in their order, then
\* one row per valid entry added in the session in the order of adding.
C10_SavedFileKeepsHistory ==
    (SavedOk /\ FirstRaising = 0) =>
        file.rows = <<HeaderRow>> \o ValidRows(EntriesOfRows(StoredRows)) \o ValidRows(added)

C10_Witness ==
    /\ SavedOk /\ FirstRaising = 0
    /\ Len(ValidEntries(EntriesOfRows(StoredRows))) >= 2
    /\ Len(ValidEntries(EntriesOfRows(StoredRows))) < Len(StoredRows)
    /\ Len(added) >= 2 /\ added[1] # added[2]

====
